---- MODULE Spec2Model ----
(***************************************************************************)
(* TrieBench: the compressed (radix) trie of src/tries/compressed_trie.py  *)
(* and the standard trie of src/tries/standard_trie.py.                    *)
(*                                                                         *)
(* A string is a sequence of code points.  Nodes live in a heap indexed by *)
(* node ids (Python object identities); a node that nothing references is  *)
(* freed when the operation returns.                                       *)
(***************************************************************************)
EXTENDS Integers, Sequences, FiniteSets, TLC

VARIABLES ctrie, trie, ref, raised, call

vars == <<ctrie, trie, ref, raised, call>>

(***************************************************************************)
(* Bounds of the model.                                                    *)
(***************************************************************************)
\* number of lower-case letters of the key alphabet ("s", "t", ...)
NumChars == 2
\* longest normalized key
MaxLen == 3
\* most keys the reference set holds at once
MaxKeys == 3
\* longest list handed to a batch operation
MaxBatch == 2
\* longest normalized word inside a batch
MaxBatchLen == 2
\* first characters offered to a single node's edge container
MaxFan == 9

(***************************************************************************)
(* Strings and the normalizer str.casefold.                                *)
(***************************************************************************)
LowerS == 115
Eszett == 223

Lower == LowerS .. (LowerS + NumChars - 1)
RawChars == Lower \cup {Eszett}

\* str.casefold on one code point: A-Z to a-z, sharp s to "ss"
casefold_char(c) ==
  IF c = Eszett THEN <<LowerS, LowerS>>
  ELSE IF c >= 65 /\ c <= 90 THEN <<c + 32>>
  ELSE <<c>>

RECURSIVE casefold(_)
casefold(w) ==
  IF w = <<>> THEN <<>> ELSE casefold_char(Head(w)) \o casefold(Tail(w))

StringsUpTo(S, n) == UNION {[1..k -> S] : k \in 0..n}

\* the raw words a caller passes, and the keys they normalize to
Words == {w \in StringsUpTo(RawChars, MaxLen) : Len(casefold(w)) <= MaxLen}
Keys == StringsUpTo(Lower, MaxLen)

\* faulty variant: the slice starts one element late, w[i+1:]
Drop_one_more(w, i) == SubSeq(w, i + 2, Len(w))

\* w[i:] of Python, i counted from 0
Drop(w, i) == SubSeq(w, i + 1, Len(w))
\* w[:i] of Python
Take(w, i) == SubSeq(w, 1, i)

startswith(w, p) == Len(p) <= Len(w) /\ Take(w, Len(p)) = p

\* Python's order on strings: lexicographic by code point
RECURSIVE StrLess(_, _)
StrLess(a, b) ==
  IF b = <<>> THEN FALSE
  ELSE IF a = <<>> THEN TRUE
  ELSE IF Head(a) # Head(b) THEN Head(a) < Head(b)
  ELSE StrLess(Tail(a), Tail(b))

\* the elements of a sequence
Range(s) == {s[i] : i \in DOMAIN s}

(***************************************************************************)
(* The heap of nodes.                                                      *)
(***************************************************************************)
MaxNodes == MaxKeys * MaxLen + MaxFan + 2
NodeIds == 0 .. MaxNodes
root == 0

NoEdges == [form |-> "None", items |-> <<>>]

\* a free cell, and a node as its constructor leaves it
FreeNode == [alloc |-> FALSE, is_terminal |-> FALSE, edges |-> NoEdges]
RadixNode(is_terminal) == [alloc |-> TRUE, is_terminal |-> is_terminal, edges |-> NoEdges]

\* memory while an operation runs: the nodes, and whether an exception escaped
Mem(node) == [node |-> node, raised |-> FALSE]

\* allocate a node: the first free cell
FreeId(m) == CHOOSE n \in NodeIds : ~m.node[n].alloc /\ \A k \in 0..(n-1) : m.node[k].alloc
New(m, is_terminal) ==
  IF m.raised THEN [m |-> m, id |-> root]
  ELSE LET n == FreeId(m)
       IN [m |-> [m EXCEPT !.node[n] = RadixNode(is_terminal)], id |-> n]

\* faulty variant: the flag is flipped instead of assigned
set_terminal_toggles(m, n, b) ==
  IF m.raised THEN m ELSE [m EXCEPT !.node[n].is_terminal = ~@]

set_terminal(m, n, b) ==
  IF m.raised THEN m ELSE [m EXCEPT !.node[n].is_terminal = b]

\* first code point of a label (0 when the label is empty)
First(label) == IF label = <<>> THEN 0 ELSE label[1]

\* position of the edge whose label starts with ch, 0 when there is none
EdgeIndex(items, ch) ==
  IF \E i \in DOMAIN items : First(items[i][1]) = ch
  THEN CHOOSE i \in DOMAIN items :
         First(items[i][1]) = ch /\ \A j \in 1..(i-1) : First(items[j][1]) # ch
  ELSE 0

RemoveAt(s, i) == SubSeq(s, 1, i - 1) \o SubSeq(s, i + 1, Len(s))

(***************************************************************************)
(* RadixNode: the adaptive edge container.                                 *)
(***************************************************************************)
fanout_switch == 8

\* faulty variant: when no label starts with ch the first edge is returned
RadixNode_get_any_edge(m, n, ch) ==
  LET e == m.node[n].edges
      i == EdgeIndex(e.items, ch)
  IN IF e.form = "None" THEN <<>>
     ELSE IF i = 0 THEN e.items[1] ELSE e.items[i]

\* (label, child) of the edge starting with ch, <<>> for None
RadixNode_get(m, n, ch) ==
  LET e == m.node[n].edges
      i == EdgeIndex(e.items, ch)
  IN IF e.form = "None" THEN <<>>
     ELSE IF i = 0 THEN <<>> ELSE e.items[i]

\* faulty variant: never replaces, a second edge with the same first character is appended
RadixNode_set_append_only(m, n, chars, child) ==
  IF m.raised THEN m
  ELSE IF chars = <<>> THEN [m EXCEPT !.raised = TRUE]
  ELSE
    LET e == m.node[n].edges
        grown == Append(e.items, <<chars, child>>)
    IN [m EXCEPT !.node[n].edges =
           [form |-> IF e.form = "dict" \/ Len(grown) >= fanout_switch THEN "dict" ELSE "list",
            items |-> grown]]

\* faulty variant: promotes only above the threshold (len(e) > fanout_switch)
RadixNode_set_promotes_late(m, n, chars, child) ==
  IF m.raised THEN m
  ELSE IF chars = <<>> THEN [m EXCEPT !.raised = TRUE]
  ELSE
    LET e == m.node[n].edges
        i == EdgeIndex(e.items, chars[1])
        grown == Append(e.items, <<chars, child>>)
    IN IF e.form = "None"
       THEN [m EXCEPT !.node[n].edges = [form |-> "list", items |-> <<<<chars, child>>>>]]
       ELSE IF i # 0
       THEN [m EXCEPT !.node[n].edges.items[i] = <<chars, child>>]
       ELSE [m EXCEPT !.node[n].edges =
                [form |-> IF e.form = "dict" \/ Len(grown) > fanout_switch THEN "dict" ELSE "list",
                 items |-> grown]]

RadixNode_set(m, n, chars, child) ==
  IF m.raised THEN m
  ELSE IF chars = <<>> THEN [m EXCEPT !.raised = TRUE]
  ELSE
    LET e == m.node[n].edges
        ch == chars[1]
        i == EdgeIndex(e.items, ch)
    IN IF e.form = "None"
       THEN [m EXCEPT !.node[n].edges = [form |-> "list", items |-> <<<<chars, child>>>>]]
       ELSE IF e.form = "dict"
       THEN IF i # 0
            THEN [m EXCEPT !.node[n].edges.items[i] = <<chars, child>>]
            ELSE [m EXCEPT !.node[n].edges.items = Append(e.items, <<chars, child>>)]
       ELSE IF i # 0
       THEN [m EXCEPT !.node[n].edges.items[i] = <<chars, child>>]
       ELSE LET grown == Append(e.items, <<chars, child>>)
            IN [m EXCEPT !.node[n].edges =
                   [form |-> IF Len(grown) >= fanout_switch THEN "dict" ELSE "list",
                    items |-> grown]]

\* faulty variant: compares the whole label with the character (k == char)
RadixNode_del_whole_label(m, n, char) ==
  LET e == m.node[n].edges
      hit == {i \in DOMAIN e.items : e.items[i][1] = <<char>>}
      i == IF hit = {} THEN 0 ELSE CHOOSE j \in hit : TRUE
      rest == RemoveAt(e.items, i)
  IN IF m.raised \/ i = 0 THEN [m |-> m, ret |-> FALSE]
     ELSE [m |-> [m EXCEPT !.node[n].edges =
                     IF rest = <<>> THEN NoEdges ELSE [form |-> e.form, items |-> rest]],
           ret |-> TRUE]

\* faulty variant: a dict is turned back into a list one edge too early
RadixNode_del_demotes_early(m, n, char) ==
  LET e == m.node[n].edges
      i == EdgeIndex(e.items, char)
      rest == RemoveAt(e.items, i)
  IN IF m.raised \/ e.form = "None" \/ i = 0 THEN [m |-> m, ret |-> FALSE]
     ELSE IF e.form = "dict"
     THEN [m |-> [m EXCEPT !.node[n].edges =
                     [form |-> IF Len(rest) <= fanout_switch - 1 THEN "list" ELSE "dict",
                      items |-> rest]],
           ret |-> TRUE]
     ELSE [m |-> [m EXCEPT !.node[n].edges =
                     IF rest = <<>> THEN NoEdges ELSE [form |-> "list", items |-> rest]],
           ret |-> TRUE]

RadixNode_del(m, n, char) ==
  IF m.raised THEN [m |-> m, ret |-> FALSE]
  ELSE
    LET e == m.node[n].edges
        i == EdgeIndex(e.items, char)
        rest == RemoveAt(e.items, i)
    IN IF e.form = "None" THEN [m |-> m, ret |-> FALSE]
       ELSE IF i = 0 THEN [m |-> m, ret |-> FALSE]
       ELSE IF e.form = "dict"
       THEN [m |-> [m EXCEPT !.node[n].edges =
                       [form |-> IF Len(rest) <= fanout_switch - 2 THEN "list" ELSE "dict",
                        items |-> rest]],
             ret |-> TRUE]
       ELSE [m |-> [m EXCEPT !.node[n].edges =
                       IF rest = <<>> THEN NoEdges ELSE [form |-> "list", items |-> rest]],
             ret |-> TRUE]

RadixNode_iter_edges(m, n) == m.node[n].edges.items

RadixNode_degree(m, n) == Len(m.node[n].edges.items)

\* (label, child) when there is exactly one edge, <<>> for None
RadixNode_only_edge(m, n) ==
  LET e == m.node[n].edges
  IN IF Len(e.items) = 1 THEN e.items[1] ELSE <<>>

(***************************************************************************)
(* Object lifetime: what the root no longer reaches is freed on return.    *)
(***************************************************************************)
Children(node, n) == {node[n].edges.items[i][2] : i \in DOMAIN node[n].edges.items}

RECURSIVE ReachFrom(_, _, _)
ReachFrom(node, seen, k) ==
  LET more == seen \cup UNION {Children(node, n) : n \in seen}
  IN IF k = 0 \/ more = seen THEN seen ELSE ReachFrom(node, more, k - 1)

Reachable(node) == ReachFrom(node, {root}, MaxNodes + 1)

Collect(node) ==
  LET live == Reachable(node)
  IN [n \in NodeIds |-> IF n \in live THEN node[n] ELSE FreeNode]

\* the nodes below n in depth-first pre-order, n first
RECURSIVE Preorder(_, _)
RECURSIVE PreorderEdges(_, _)
Preorder(node, n) == <<n>> \o PreorderEdges(node, node[n].edges.items)
PreorderEdges(node, items) ==
  IF items = <<>> THEN <<>>
  ELSE Preorder(node, Head(items)[2]) \o PreorderEdges(node, Tail(items))

\* Addresses are not observable: a state is kept up to renaming of node ids,
\* the live nodes numbered in pre-order from the root.
Compact(node) ==
  LET order == Preorder(node, root)
      pos(n) == (CHOOSE i \in DOMAIN order : order[i] = n) - 1
      moved(k) == node[order[k + 1]]
  IN [k \in NodeIds |->
        IF k < Len(order)
        THEN [moved(k) EXCEPT !.edges.items =
                [i \in DOMAIN moved(k).edges.items |->
                   <<moved(k).edges.items[i][1], pos(moved(k).edges.items[i][2])>>]]
        ELSE FreeNode]

(***************************************************************************)
(* CompressedTrie.                                                         *)
(***************************************************************************)
\* a trie as its constructor leaves it: a lone non-terminal root
CompressedTrie_init == [n \in NodeIds |-> IF n = root THEN RadixNode(FALSE) ELSE FreeNode]

RECURSIVE lcp_from(_, _, _)
lcp_from(a, b, i) ==
  IF i < Len(a) /\ i < Len(b) /\ a[i + 1] = b[i + 1] THEN lcp_from(a, b, i + 1) ELSE i

\* faulty variant: the comparison stops after the first character
CompressedTrie_lcp_at_most_one(a, b) == IF lcp_from(a, b, 0) > 1 THEN 1 ELSE lcp_from(a, b, 0)

CompressedTrie_lcp(a, b) == lcp_from(a, b, 0)

\* faulty variant: the element is put at the end whatever its value
InsertSorted_appends(s, x) == Append(s, x)

\* sorted(): insertion into an ascending list, equal elements kept in input order
RECURSIVE InsertSorted(_, _)
InsertSorted(s, x) ==
  IF s = <<>> THEN <<x>>
  ELSE IF StrLess(x, Head(s)) THEN <<x>> \o s
  ELSE <<Head(s)>> \o InsertSorted(Tail(s), x)

RECURSIVE sorted(_)
sorted(s) == IF s = <<>> THEN <<>> ELSE InsertSorted(sorted(Take(s, Len(s) - 1)), s[Len(s)])

\* sorted(set(items)): the distinct elements in ascending order
RECURSIVE sorted_set(_)
sorted_set(S) ==
  IF S = {} THEN <<>>
  ELSE LET x == CHOOSE y \in S : \A z \in S : z = y \/ StrLess(y, z)
       IN <<x>> \o sorted_set(S \ {x})

\* faulty variant: an element is dropped when it occurred anywhere before
RECURSIVE unique_adjacent_drops_all_repeats(_)
unique_adjacent_drops_all_repeats(s) ==
  IF Len(s) <= 1 THEN s
  ELSE LET front == unique_adjacent_drops_all_repeats(Take(s, Len(s) - 1))
       IN IF s[Len(s)] \notin Range(front) THEN Append(front, s[Len(s)]) ELSE front

\* the stable pass that drops an element equal to the one before it
RECURSIVE unique_adjacent(_)
unique_adjacent(s) ==
  IF Len(s) <= 1 THEN s
  ELSE LET front == unique_adjacent(Take(s, Len(s) - 1))
       IN IF s[Len(s)] # s[Len(s) - 1] THEN Append(front, s[Len(s)]) ELSE front

prepare_batch(words, dedup, presorted) ==
  LET items == [i \in DOMAIN words |-> casefold(words[i])]
  IN IF ~presorted
     THEN IF dedup THEN sorted_set(Range(items)) ELSE sorted(items)
     ELSE IF dedup THEN unique_adjacent(items)
     ELSE items

\* the loop of single_insert on an already normalized word
RECURSIVE insert_loop(_, _, _)
insert_loop(m, node, word) ==
  IF word = <<>> THEN [m |-> set_terminal(m, node, TRUE), exit |-> "mark"]
  ELSE
    LET nxt == RadixNode_get(m, node, word[1])
    IN IF nxt = <<>>
       THEN LET a == New(m, TRUE)
            IN [m |-> RadixNode_set(a.m, node, word, a.id), exit |-> "new_edge"]
       ELSE
         LET label == nxt[1]
             child == nxt[2]
             i == CompressedTrie_lcp(word, label)
         IN IF i = Len(label) THEN insert_loop(m, child, Drop(word, i))
            ELSE IF i > 0
            THEN LET shared == Take(label, i)
                     old == Drop(label, i)
                     new == Drop(word, i)
                     mid == New(m, new = <<>>)
                     m1 == RadixNode_set(mid.m, node, shared, mid.id)
                     m2 == RadixNode_set(m1, mid.id, old, child)
                     leaf == New(m2, TRUE)
                 IN [m |-> IF new # <<>>
                           THEN RadixNode_set(leaf.m, mid.id, new, leaf.id)
                           ELSE m2,
                     exit |-> "split"]
            ELSE LET a == New(m, TRUE)
                 IN [m |-> RadixNode_set(a.m, node, word, a.id), exit |-> "fall_back"]

\* normalize = str.casefold (TRUE) or None (FALSE)
CompressedTrie_single_insert(m, word, normalize) ==
  insert_loop(m, root, IF normalize THEN casefold(word) ELSE word)

\* faulty variant: the loop ends at the first word that repeats
RECURSIVE CompressedTrie_insert_each_stops_at_repeat(_, _)
CompressedTrie_insert_each_stops_at_repeat(m, words) ==
  IF words = <<>> THEN m
  ELSE LET done == CompressedTrie_single_insert(m, Head(words), FALSE).m
       IN IF Len(words) >= 2 /\ words[1] = words[2] THEN done
          ELSE CompressedTrie_insert_each_stops_at_repeat(done, Tail(words))

RECURSIVE CompressedTrie_insert_each(_, _)
CompressedTrie_insert_each(m, words) ==
  IF words = <<>> THEN m
  ELSE CompressedTrie_insert_each(CompressedTrie_single_insert(m, Head(words), FALSE).m,
                                  Tail(words))

CompressedTrie_batch_insert(m, words, dedup, presorted) ==
  CompressedTrie_insert_each(m, prepare_batch(words, dedup, presorted))

\* faulty variant: a query that ends inside an edge label is taken as found at its child
RECURSIVE delete_walk_accepts_mid_edge(_, _, _, _)
delete_walk_accepts_mid_edge(m, node, rem, frames) ==
  IF rem = <<>> THEN [ok |-> TRUE, node |-> node, frames |-> frames, exit |-> "found"]
  ELSE
    LET hit == RadixNode_get(m, node, rem[1])
    IN IF hit = <<>>
       THEN [ok |-> FALSE, node |-> node, frames |-> frames, exit |-> "no_edge"]
       ELSE LET label == hit[1]
                child == hit[2]
                i == CompressedTrie_lcp(rem, label)
            IN IF i < Len(label) /\ i < Len(rem)
               THEN [ok |-> FALSE, node |-> node, frames |-> frames, exit |-> "mid_edge"]
               ELSE delete_walk_accepts_mid_edge(m, child, Drop(rem, i),
                                                 Append(frames, <<node, label, child>>))

\* the walk down of single_delete: the frames of the path, or the reason it stopped
RECURSIVE delete_walk(_, _, _, _)
delete_walk(m, node, rem, frames) ==
  IF rem = <<>> THEN [ok |-> TRUE, node |-> node, frames |-> frames, exit |-> "found"]
  ELSE
    LET hit == RadixNode_get(m, node, rem[1])
    IN IF hit = <<>>
       THEN [ok |-> FALSE, node |-> node, frames |-> frames, exit |-> "no_edge"]
       ELSE LET label == hit[1]
                child == hit[2]
                i == CompressedTrie_lcp(rem, label)
            IN IF i < Len(label)
               THEN [ok |-> FALSE, node |-> node, frames |-> frames, exit |-> "mid_edge"]
               ELSE delete_walk(m, child, Drop(rem, i), Append(frames, <<node, label, child>>))

\* faulty variant: the inner loop merges a unary ancestor even when it is terminal
RECURSIVE coalesce_up_ignores_terminal(_, _, _)
coalesce_up_ignores_terminal(m, cur, frames) ==
  IF frames # <<>> /\ RadixNode_degree(m, cur) = 1
  THEN LET top == frames[Len(frames)]
           only2 == RadixNode_only_edge(m, cur)
       IN coalesce_up_ignores_terminal(RadixNode_set(m, top[1], top[2] \o only2[1], only2[2]),
                                       top[1], Take(frames, Len(frames) - 1))
  ELSE m

\* the inner loop of single_delete: merge further unary non-terminal ancestors
RECURSIVE coalesce_up(_, _, _)
coalesce_up(m, cur, frames) ==
  IF frames # <<>> /\ ~m.node[cur].is_terminal /\ RadixNode_degree(m, cur) = 1
  THEN LET top == frames[Len(frames)]
           gp == top[1]
           gp_edge == top[2]
           only2 == RadixNode_only_edge(m, cur)
       IN coalesce_up(RadixNode_set(m, gp, gp_edge \o only2[1], only2[2]),
                      gp, Take(frames, Len(frames) - 1))
  ELSE m

\* faulty variant: prunes childless nodes but never merges a unary node
RECURSIVE prune_up_no_coalesce(_, _, _)
prune_up_no_coalesce(m, cur, frames) ==
  IF frames = <<>> THEN m
  ELSE
    LET top == frames[Len(frames)]
    IN IF m.node[cur].is_terminal \/ RadixNode_degree(m, cur) # 0 THEN m
       ELSE prune_up_no_coalesce(RadixNode_del(m, top[1], First(top[2])).m, top[1],
                                 Take(frames, Len(frames) - 1))

\* faulty variant: a non-terminal node with one edge is unlinked like a leaf
RECURSIVE prune_up_drops_unary(_, _, _)
prune_up_drops_unary(m, cur, frames) ==
  IF frames = <<>> THEN m
  ELSE
    LET top == frames[Len(frames)]
    IN IF m.node[cur].is_terminal \/ RadixNode_degree(m, cur) > 1 THEN m
       ELSE prune_up_drops_unary(RadixNode_del(m, top[1], First(top[2])).m, top[1],
                                 Take(frames, Len(frames) - 1))

\* faulty variant: a node left without edges is not unlinked from its parent
prune_up_keeps_leaf(m, cur, frames) ==
  IF frames = <<>> THEN m
  ELSE
    LET top == frames[Len(frames)]
        only == RadixNode_only_edge(m, cur)
    IN IF ~m.node[cur].is_terminal /\ RadixNode_degree(m, cur) = 1
       THEN coalesce_up(RadixNode_set(m, top[1], top[2] \o only[1], only[2]),
                        top[1], Take(frames, Len(frames) - 1))
       ELSE m

\* the upward pass of single_delete
RECURSIVE prune_up(_, _, _)
prune_up(m, cur, frames) ==
  IF frames = <<>> THEN m
  ELSE
    LET top == frames[Len(frames)]
        rest == Take(frames, Len(frames) - 1)
        parent == top[1]
        in_label == top[2]
        deg == RadixNode_degree(m, cur)
    IN IF m.node[cur].is_terminal THEN m
       ELSE IF deg = 1
       THEN LET only == RadixNode_only_edge(m, cur)
            IN coalesce_up(RadixNode_set(m, parent, in_label \o only[1], only[2]),
                           parent, rest)
       ELSE IF deg = 0
       THEN prune_up(RadixNode_del(m, parent, First(in_label)).m, parent, rest)
       ELSE m

\* faulty variant: deleting the empty key reports success whether or not it was stored
CompressedTrie_single_delete_empty_always_true(m, word0, normalize) ==
  LET word == IF normalize THEN casefold(word0) ELSE word0
      walk == delete_walk(m, root, word, <<>>)
  IN IF word = <<>>
     THEN [m |-> set_terminal(m, root, FALSE), ret |-> TRUE, exit |-> "root_cleared"]
     ELSE IF ~walk.ok THEN [m |-> m, ret |-> FALSE, exit |-> walk.exit]
     ELSE IF ~m.node[walk.node].is_terminal
     THEN [m |-> m, ret |-> FALSE, exit |-> "not_terminal"]
     ELSE [m |-> prune_up(set_terminal(m, walk.node, FALSE), walk.node, walk.frames),
           ret |-> TRUE, exit |-> "deleted"]

CompressedTrie_single_delete(m, word0, normalize) ==
  LET word == IF normalize THEN casefold(word0) ELSE word0
      walk == delete_walk(m, root, word, <<>>)
  IN IF word = <<>>
     THEN IF m.node[root].is_terminal
          THEN [m |-> set_terminal(m, root, FALSE), ret |-> TRUE, exit |-> "root_cleared"]
          ELSE [m |-> m, ret |-> FALSE, exit |-> "root_unset"]
     ELSE IF ~walk.ok THEN [m |-> m, ret |-> FALSE, exit |-> walk.exit]
     ELSE IF ~m.node[walk.node].is_terminal
     THEN [m |-> m, ret |-> FALSE, exit |-> "not_terminal"]
     ELSE [m |-> prune_up(set_terminal(m, walk.node, FALSE), walk.node, walk.frames),
           ret |-> TRUE, exit |-> "deleted"]

\* faulty variant: a key that is not found is not counted
RECURSIVE CompressedTrie_delete_each_uncounted_miss(_, _, _, _)
CompressedTrie_delete_each_uncounted_miss(m, words, deleted, missing) ==
  IF words = <<>> THEN [m |-> m, ret |-> <<deleted, missing>>]
  ELSE LET r == CompressedTrie_single_delete(m, Head(words), FALSE)
       IN CompressedTrie_delete_each_uncounted_miss(
            r.m, Tail(words), IF r.ret THEN deleted + 1 ELSE deleted, missing)

RECURSIVE CompressedTrie_delete_each(_, _, _, _)
CompressedTrie_delete_each(m, words, deleted, missing) ==
  IF words = <<>> THEN [m |-> m, ret |-> <<deleted, missing>>]
  ELSE LET r == CompressedTrie_single_delete(m, Head(words), FALSE)
       IN IF r.ret
          THEN CompressedTrie_delete_each(r.m, Tail(words), deleted + 1, missing)
          ELSE CompressedTrie_delete_each(r.m, Tail(words), deleted, missing + 1)

CompressedTrie_batch_delete(m, words, dedup, presorted) ==
  CompressedTrie_delete_each(m, prepare_batch(words, dedup, presorted), 0, 0)

\* prefix_search: <<node, pending>>, node = -1 for None
None == -1

\* faulty variant: a prefix that ends inside a label returns the near end of the edge
RECURSIVE prefix_walk_returns_near_end(_, _, _)
prefix_walk_returns_near_end(node, n, prefix) ==
  IF prefix = <<>> THEN <<n, <<>>>>
  ELSE
    LET hit == RadixNode_get(Mem(node), n, prefix[1])
    IN IF hit = <<>> THEN <<None, <<>>>>
       ELSE LET label == hit[1]
                i == CompressedTrie_lcp(prefix, label)
            IN IF i = Len(label) THEN prefix_walk_returns_near_end(node, hit[2], Drop(prefix, i))
               ELSE IF i = Len(prefix) THEN <<n, Drop(label, i)>>
               ELSE <<None, <<>>>>

\* faulty variant: a prefix that ends inside a label is not found
RECURSIVE prefix_walk_node_boundary_only(_, _, _)
prefix_walk_node_boundary_only(node, n, prefix) ==
  IF prefix = <<>> THEN <<n, <<>>>>
  ELSE
    LET hit == RadixNode_get(Mem(node), n, prefix[1])
    IN IF hit = <<>> THEN <<None, <<>>>>
       ELSE IF CompressedTrie_lcp(prefix, hit[1]) = Len(hit[1])
       THEN prefix_walk_node_boundary_only(node, hit[2], Drop(prefix, Len(hit[1])))
       ELSE <<None, <<>>>>

RECURSIVE prefix_walk(_, _, _)
prefix_walk(node, n, prefix) ==
  IF prefix = <<>> THEN <<n, <<>>>>
  ELSE
    LET hit == RadixNode_get(Mem(node), n, prefix[1])
    IN IF hit = <<>> THEN <<None, <<>>>>
       ELSE LET label == hit[1]
                child == hit[2]
                i == CompressedTrie_lcp(prefix, label)
            IN IF i = Len(label) THEN prefix_walk(node, child, Drop(prefix, i))
               ELSE IF i = Len(prefix) THEN <<child, Drop(label, i)>>
               ELSE <<None, <<>>>>

CompressedTrie_prefix_search(node, prefix0, normalize) ==
  LET prefix == IF normalize THEN casefold(prefix0) ELSE prefix0
  IN IF prefix = <<>> THEN <<root, <<>>>> ELSE prefix_walk(node, root, prefix)

\* faulty variant: any node at the end of the word counts, terminal or not
CompressedTrie_search_any_node(node, word, normalize) ==
  LET r == CompressedTrie_prefix_search(node, word, normalize)
  IN IF r[1] # None /\ r[2] = <<>> THEN r[1] ELSE None

CompressedTrie_search(node, word, normalize) ==
  LET r == CompressedTrie_prefix_search(node, word, normalize)
  IN IF r[1] # None /\ node[r[1]].is_terminal /\ r[2] = <<>> THEN r[1] ELSE None

\* faulty variant: the limit is tested with > and one result too many is yielded
RECURSIVE enumerate_loop_off_by_one(_, _, _, _, _, _)
enumerate_loop_off_by_one(node, stack, buf, out, yielded, k) ==
  IF stack = <<>> THEN out
  ELSE
    LET top == stack[Len(stack)]
        trimmed == Take(buf, top[3])
    IN IF top[2] = <<>>
       THEN enumerate_loop_off_by_one(node, Take(stack, Len(stack) - 1), trimmed, out, yielded, k)
       ELSE
         LET child == Head(top[2])[2]
             grown == trimmed \o Head(top[2])[1]
             pushed == Append([stack EXCEPT ![Len(stack)] = <<top[1], Tail(top[2]), top[3]>>],
                              <<child, RadixNode_iter_edges(Mem(node), child), Len(grown)>>)
         IN IF node[child].is_terminal
            THEN IF k # <<>> /\ yielded + 1 > k[1]
                 THEN Append(out, grown)
                 ELSE enumerate_loop_off_by_one(node, pushed, grown, Append(out, grown),
                                                IF k # <<>> THEN yielded + 1 ELSE yielded, k)
            ELSE enumerate_loop_off_by_one(node, pushed, grown, out, yielded, k)

\* k of enumerate_prefix: <<>> for None, <<n>> for the integer n
RECURSIVE enumerate_loop(_, _, _, _, _, _)
enumerate_loop(node, stack, buf, out, yielded, k) ==
  IF stack = <<>> THEN out
  ELSE
    LET top == stack[Len(stack)]
        n == top[1]
        children == top[2]
        depth == top[3]
        trimmed == Take(buf, depth)
    IN IF children = <<>>
       THEN enumerate_loop(node, Take(stack, Len(stack) - 1), trimmed, out, yielded, k)
       ELSE
         LET label == Head(children)[1]
             child == Head(children)[2]
             advanced == [stack EXCEPT ![Len(stack)] = <<n, Tail(children), depth>>]
             grown == trimmed \o label
             pushed == Append(advanced,
                              <<child, RadixNode_iter_edges(Mem(node), child), Len(grown)>>)
         IN IF node[child].is_terminal
            THEN IF k # <<>> /\ yielded + 1 >= k[1]
                 THEN Append(out, grown)
                 ELSE enumerate_loop(node, pushed, grown, Append(out, grown),
                                     IF k # <<>> THEN yielded + 1 ELSE yielded, k)
            ELSE enumerate_loop(node, pushed, grown, out, yielded, k)

\* faulty variant: the buffer is not seeded with the pending suffix of a mid-edge start
CompressedTrie_enumerate_prefix_unseeded(node, prefix0, k, normalize) ==
  LET prefix == IF normalize THEN casefold(prefix0) ELSE prefix0
      found == CompressedTrie_prefix_search(node, prefix, FALSE)
      n == found[1]
      first == IF node[n].is_terminal THEN <<prefix>> ELSE <<>>
      stack == <<<<n, RadixNode_iter_edges(Mem(node), n), Len(prefix)>>>>
  IN IF n = None THEN <<>>
     ELSE IF k # <<>> /\ k[1] <= 0 THEN <<>>
     ELSE IF node[n].is_terminal /\ k # <<>> /\ 1 >= k[1] THEN first
     ELSE enumerate_loop(node, stack, prefix, first, Len(first), k)

\* faulty variant: the key at the start position is yielded after its descendants
CompressedTrie_enumerate_prefix_start_last(node, prefix0, k, normalize) ==
  LET prefix == IF normalize THEN casefold(prefix0) ELSE prefix0
      found == CompressedTrie_prefix_search(node, prefix, FALSE)
      n == found[1]
      buf == IF found[2] # <<>> \/ node[n].is_terminal THEN prefix \o found[2] ELSE prefix
      stack == <<<<n, RadixNode_iter_edges(Mem(node), n), Len(buf)>>>>
      below == enumerate_loop(node, stack, buf, <<>>, 0, k)
  IN IF n = None THEN <<>>
     ELSE IF k # <<>> /\ k[1] <= 0 THEN <<>>
     ELSE IF node[n].is_terminal /\ (k = <<>> \/ Len(below) < k[1])
     THEN Append(below, buf)
     ELSE below

\* the strings enumerate_prefix yields, in order
CompressedTrie_enumerate_prefix(node, prefix0, k, normalize) ==
  LET prefix == IF normalize THEN casefold(prefix0) ELSE prefix0
      found == CompressedTrie_prefix_search(node, prefix, FALSE)
      n == found[1]
      suffix == found[2]
      buf == IF suffix # <<>> \/ node[n].is_terminal THEN prefix \o suffix ELSE prefix
      first == IF node[n].is_terminal THEN <<buf>> ELSE <<>>
      stack == <<<<n, RadixNode_iter_edges(Mem(node), n), Len(buf)>>>>
  IN IF n = None THEN <<>>
     ELSE IF k # <<>> /\ k[1] <= 0 THEN <<>>
     ELSE IF node[n].is_terminal /\ k # <<>> /\ 1 >= k[1] THEN first
     ELSE enumerate_loop(node, stack, buf, first, Len(first), k)

\* count_nodes(): the nodes the root reaches, the root included
CompressedTrie_count_nodes(node) == Len(Preorder(node, root))

(***************************************************************************)
(* Trie: the standard trie, one character per edge.  A node's children     *)
(* dict is the list of its (character, child) items in insertion order,    *)
(* form "None" while the node has no dict.                                 *)
(***************************************************************************)
TrieNode == [alloc |-> TRUE, is_terminal |-> FALSE, edges |-> NoEdges]

Trie_init == [n \in NodeIds |-> IF n = root THEN TrieNode ELSE FreeNode]

\* position of key ch in a children dict, 0 when absent
KeyIndex(items, ch) ==
  IF \E i \in DOMAIN items : items[i][1] = ch
  THEN CHOOSE i \in DOMAIN items : items[i][1] = ch
  ELSE 0

\* children.get(ch): the child, None when there is no dict or no such key
child_get(node, n, ch) ==
  LET e == node[n].edges
      i == KeyIndex(e.items, ch)
  IN IF e.form = "None" \/ i = 0 THEN None ELSE e.items[i][2]

\* allocate a TrieNode
NewTrieNode(m) ==
  LET n == FreeId(m)
  IN [m |-> [m EXCEPT !.node[n] = TrieNode], id |-> n]

\* the walk that creates missing nodes; path collects the nodes walked
RECURSIVE insert_chars(_, _, _, _)
insert_chars(m, n, chars, path) ==
  IF chars = <<>> THEN [m |-> m, node |-> n, path |-> path]
  ELSE
    LET ch == Head(chars)
        found == child_get(m.node, n, ch)
        a == NewTrieNode(m)
        linked == IF m.node[n].edges.form = "None"
                  THEN [a.m EXCEPT !.node[n].edges = [form |-> "dict", items |-> <<<<ch, a.id>>>>]]
                  ELSE [a.m EXCEPT !.node[n].edges.items = Append(@, <<ch, a.id>>)]
    IN IF found = None
       THEN insert_chars(linked, a.id, Tail(chars), Append(path, a.id))
       ELSE insert_chars(m, found, Tail(chars), Append(path, found))

Trie_single_insert(m, word) ==
  LET r == insert_chars(m, root, casefold(word), <<root>>)
  IN set_terminal(r.m, r.node, TRUE)

\* faulty variant: the path stack is not truncated at the common prefix
RECURSIVE batch_insert_loop_keeps_path(_, _, _, _)
batch_insert_loop_keeps_path(m, words, prev, path) ==
  IF words = <<>> THEN m
  ELSE
    LET w == Head(words)
        i == lcp_from(prev, w, 0)
        r == insert_chars(m, path[Len(path)], Drop(w, i), path)
    IN batch_insert_loop_keeps_path(set_terminal(r.m, r.node, TRUE), Tail(words), w, r.path)

RECURSIVE batch_insert_loop(_, _, _, _)
batch_insert_loop(m, words, prev, path) ==
  IF words = <<>> THEN m
  ELSE
    LET w == Head(words)
        i == lcp_from(prev, w, 0)
        kept == Take(path, IF i + 1 < Len(path) THEN i + 1 ELSE Len(path))
        r == insert_chars(m, kept[Len(kept)], Drop(w, i), kept)
    IN batch_insert_loop(set_terminal(r.m, r.node, TRUE), Tail(words), w, r.path)

Trie_batch_insert(m, words, dedup, presorted) ==
  batch_insert_loop(m, prepare_batch(words, dedup, presorted), <<>>, <<root>>)

\* the walk of batch_delete: stops at the first missing child
RECURSIVE delete_chars(_, _, _, _, _)
delete_chars(node, n, chars, path_nodes, path_edges) ==
  IF chars = <<>>
  THEN [ok |-> TRUE, node |-> n, path_nodes |-> path_nodes, path_edges |-> path_edges]
  ELSE
    LET ch == Head(chars)
        found == child_get(node, n, ch)
    IN IF found = None
       THEN [ok |-> FALSE, node |-> n, path_nodes |-> path_nodes, path_edges |-> path_edges]
       ELSE delete_chars(node, found, Tail(chars),
                         Append(path_nodes, found), Append(path_edges, ch))

\* faulty variant: a dict that the pop has emptied is kept
pop_child_keeps_empty_dict(m, parent, edge_ch) ==
  LET e == m.node[parent].edges
      i == KeyIndex(e.items, edge_ch)
  IN IF e.form = "None" \/ e.items = <<>> THEN m
     ELSE [m EXCEPT !.node[parent].edges.items = IF i = 0 THEN @ ELSE RemoveAt(@, i)]

\* parent.children.pop(edge_ch, None), and the dict dropped when it empties
pop_child(m, parent, edge_ch) ==
  LET e == m.node[parent].edges
      i == KeyIndex(e.items, edge_ch)
      rest == IF i = 0 THEN e.items ELSE RemoveAt(e.items, i)
  IN IF e.form = "None" \/ e.items = <<>> THEN m
     ELSE [m EXCEPT !.node[parent].edges =
              IF rest = <<>> THEN NoEdges ELSE [form |-> "dict", items |-> rest]]

\* the pruning loop of batch_delete; idx counts from 0 as in the source
RECURSIVE prune_path(_, _, _, _)
prune_path(m, path_nodes, path_edges, idx) ==
  IF idx <= 0 THEN m
  ELSE
    LET cur == path_nodes[idx + 1]
    IN IF m.node[cur].is_terminal THEN m
       ELSE IF Len(m.node[cur].edges.items) > 0 THEN m
       ELSE prune_path(pop_child(m, path_nodes[idx], path_edges[idx + 1]),
                       path_nodes, path_edges, idx - 1)

RECURSIVE batch_delete_loop(_, _, _, _, _, _, _)
batch_delete_loop(m, words, prev, path_nodes, path_edges, deleted, missing) ==
  IF words = <<>> THEN [m |-> m, ret |-> <<deleted, missing>>]
  ELSE
    LET w == Head(words)
        i == lcp_from(prev, w, 0)
        keep == IF i + 1 < Len(path_nodes) THEN i + 1 ELSE Len(path_nodes)
        walk == delete_chars(m.node, path_nodes[keep], Drop(w, i),
                             Take(path_nodes, keep), Take(path_edges, keep))
    IN IF ~walk.ok \/ ~m.node[walk.node].is_terminal
       THEN batch_delete_loop(m, Tail(words), w, walk.path_nodes, walk.path_edges,
                              deleted, missing + 1)
       ELSE batch_delete_loop(
              prune_path(set_terminal(m, walk.node, FALSE), walk.path_nodes,
                         walk.path_edges, Len(walk.path_nodes) - 1),
              Tail(words), w, walk.path_nodes, walk.path_edges, deleted + 1, missing)

Trie_batch_delete(m, words, dedup, presorted) ==
  batch_delete_loop(m, prepare_batch(words, dedup, presorted), <<>>, <<root>>, <<<<>>>>, 0, 0)

Trie_single_delete(m, word) ==
  LET r == Trie_batch_delete(m, <<word>>, FALSE, TRUE)
  IN [m |-> r.m, ret |-> (r.ret[1] = 1)]

RECURSIVE trie_walk(_, _, _)
trie_walk(node, n, prefix) ==
  IF prefix = <<>> THEN n
  ELSE LET nxt == child_get(node, n, Head(prefix))
       IN IF nxt = None THEN None ELSE trie_walk(node, nxt, Tail(prefix))

Trie_prefix_search(node, prefix) == trie_walk(node, root, casefold(prefix))

Trie_search(node, word) ==
  LET n == Trie_prefix_search(node, word)
  IN IF n # None /\ node[n].is_terminal THEN n ELSE None

\* child_iter(n): the keys of n.children in dict order
child_iter(node, n) == [i \in DOMAIN node[n].edges.items |-> node[n].edges.items[i][1]]

RECURSIVE trie_enumerate_loop(_, _, _, _, _, _)
trie_enumerate_loop(node, stack, buf, out, yielded, k) ==
  IF stack = <<>> THEN out
  ELSE
    LET top == stack[Len(stack)]
        n == top[1]
        it == top[2]
        depth == top[3]
    IN IF it = <<>>
       THEN trie_enumerate_loop(node, Take(stack, Len(stack) - 1), Take(buf, depth),
                                out, yielded, k)
       ELSE
         LET ch == Head(it)
             child == child_get(node, n, ch)
             advanced == [stack EXCEPT ![Len(stack)] = <<n, Tail(it), depth>>]
             grown == Append(buf, ch)
             pushed == Append(advanced, <<child, child_iter(node, child), Len(grown)>>)
         IN IF node[child].is_terminal
            THEN IF k # <<>> /\ yielded + 1 >= k[1]
                 THEN Append(out, grown)
                 ELSE trie_enumerate_loop(node, pushed, grown, Append(out, grown),
                                          IF k # <<>> THEN yielded + 1 ELSE yielded, k)
            ELSE trie_enumerate_loop(node, pushed, grown, out, yielded, k)

\* the strings Trie.enumerate_prefix yields, in order
Trie_enumerate_prefix(node, prefix, k) ==
  LET prefix_norm == casefold(prefix)
      n == Trie_prefix_search(node, prefix)
      buf == prefix_norm
      first == IF node[n].is_terminal THEN <<buf>> ELSE <<>>
      stack == <<<<n, child_iter(node, n), Len(buf)>>>>
  IN IF n = None THEN <<>>
     ELSE IF node[n].is_terminal /\ k # <<>> /\ 1 >= k[1] THEN first
     ELSE trie_enumerate_loop(node, stack, buf, first, Len(first), k)

Trie_count_nodes(node) == Len(Preorder(node, root))

(***************************************************************************)
(* The state machine of the compressed trie: one action per public call.   *)
(***************************************************************************)
BatchWords == {w \in Words : Len(casefold(w)) <= MaxBatchLen}
BatchLists == StringsUpTo(BatchWords, MaxBatch)

Normalized(words) == {casefold(words[i]) : i \in DOMAIN words}

\* the list being collected for _prepare_batch and, once it was called, its
\* arguments and the list it returned
NoCall == [words |-> <<>>, called |-> FALSE, dedup |-> FALSE, presorted |-> FALSE,
            items |-> <<>>]

Init ==
  /\ ctrie = CompressedTrie_init
  /\ trie = Trie_init
  /\ ref = {}
  /\ raised = FALSE
  /\ call = NoCall

CSingleInsert(w) ==
  LET r == CompressedTrie_single_insert(Mem(ctrie), w, TRUE)
  IN /\ Cardinality(ref \cup {casefold(w)}) <= MaxKeys
     /\ ctrie' = Compact(Collect(r.m.node))
     /\ raised' = r.m.raised
     /\ ref' = ref \cup {casefold(w)}
     /\ UNCHANGED <<trie, call>>

CSingleDelete(w) ==
  LET r == CompressedTrie_single_delete(Mem(ctrie), w, TRUE)
  IN /\ ctrie' = Compact(Collect(r.m.node))
     /\ raised' = r.m.raised
     /\ ref' = ref \ {casefold(w)}
     /\ UNCHANGED <<trie, call>>

CBatchInsert(ws, dedup, presorted) ==
  LET m == CompressedTrie_batch_insert(Mem(ctrie), ws, dedup, presorted)
  IN /\ Cardinality(ref \cup Normalized(ws)) <= MaxKeys
     /\ ctrie' = Compact(Collect(m.node))
     /\ raised' = m.raised
     /\ ref' = ref \cup Normalized(ws)
     /\ UNCHANGED <<trie, call>>

CBatchDelete(ws, dedup, presorted) ==
  LET r == CompressedTrie_batch_delete(Mem(ctrie), ws, dedup, presorted)
  IN /\ ctrie' = Compact(Collect(r.m.node))
     /\ raised' = r.m.raised
     /\ ref' = ref \ Normalized(ws)
     /\ UNCHANGED <<trie, call>>

NextC ==
  \/ \E w \in Words : CSingleInsert(w)
  \/ \E w \in Words : CSingleDelete(w)
  \/ \E ws \in BatchLists, dedup \in BOOLEAN, presorted \in BOOLEAN :
       CBatchInsert(ws, dedup, presorted)
  \/ \E ws \in BatchLists, dedup \in BOOLEAN, presorted \in BOOLEAN :
       CBatchDelete(ws, dedup, presorted)

SpecC == Init /\ [][NextC]_vars

(***************************************************************************)
(* The state machine of one node's edge container: RadixNode._set and      *)
(* RadixNode._del called on the root.  New first characters arrive in      *)
(* ascending order (as from a sorted batch); replacing and removing are    *)
(* unrestricted.                                                           *)
(***************************************************************************)
FanFirst == 97
FanChars == FanFirst .. (FanFirst + MaxFan - 1)
FanLabels == {<<c>> : c \in FanChars} \cup {<<c, c>> : c \in FanChars}

RootFirsts == {First(ctrie[root].edges.items[i][1]) : i \in DOMAIN ctrie[root].edges.items}

NodeSet(label) ==
  LET a == New(Mem(ctrie), TRUE)
      m == RadixNode_set(a.m, root, label, a.id)
  IN /\ label[1] \in RootFirsts \/ \A c \in RootFirsts : c < label[1]
     /\ ctrie' = Compact(Collect(m.node))
     /\ raised' = m.raised
     /\ UNCHANGED <<trie, ref, call>>

NodeDel(ch) ==
  LET r == RadixNode_del(Mem(ctrie), root, ch)
  IN /\ ctrie' = Compact(Collect(r.m.node))
     /\ raised' = r.m.raised
     /\ UNCHANGED <<trie, ref, call>>

NextNode ==
  \/ \E label \in FanLabels : NodeSet(label)
  \/ \E ch \in FanChars : NodeDel(ch)

SpecNode == Init /\ [][NextNode]_vars

(***************************************************************************)
(* The state machine of the batch preparator: a caller collects a list of  *)
(* words and hands it to _prepare_batch.                                   *)
(***************************************************************************)
PrepGive(w) ==
  /\ Len(call.words) <= MaxBatch
  /\ call' = [NoCall EXCEPT !.words = Append(call.words, w)]
  /\ UNCHANGED <<ctrie, trie, ref, raised>>

PrepCall(dedup, presorted) ==
  /\ call' = [words |-> call.words, called |-> TRUE, dedup |-> dedup,
               presorted |-> presorted,
               items |-> prepare_batch(call.words, dedup, presorted)]
  /\ UNCHANGED <<ctrie, trie, ref, raised>>

NextPrep ==
  \/ \E w \in BatchWords : PrepGive(w)
  \/ \E dedup \in BOOLEAN, presorted \in BOOLEAN : PrepCall(dedup, presorted)

SpecPrep == Init /\ [][NextPrep]_vars

\* the normalized input of the call, and how often x occurs in a list
CallNorm == [i \in DOMAIN call.words |-> casefold(call.words[i])]
Count(s, x) == Cardinality({i \in DOMAIN s : s[i] = x})

\* C22: with presorted = false the list returned is ascending: with dedup it
\* is strictly increasing and holds exactly the normalized words; without it
\* it is non-decreasing and a permutation of the normalized input.
C22_PrepareBatchSorts ==
  (call.called /\ ~call.presorted) =>
    LET items == call.items
    IN /\ Range(items) = Range(CallNorm)
       /\ call.dedup =>
            \A i \in 1..(Len(items) - 1) : StrLess(items[i], items[i + 1])
       /\ ~call.dedup =>
            /\ \A i \in 1..(Len(items) - 1) : ~StrLess(items[i + 1], items[i])
            /\ Len(items) = Len(CallNorm)
            /\ \A x \in Range(CallNorm) : Count(items, x) = Count(CallNorm, x)

\* a call without dedup on a descending list of three words with a repeat
\* that only normalization reveals
C22_Witness ==
  /\ call.called /\ ~call.presorted /\ ~call.dedup
  /\ Len(call.words) = 3
  /\ StrLess(CallNorm[3], CallNorm[2])
  /\ \E i, j \in 1..3 : call.words[i] # call.words[j] /\ CallNorm[i] = CallNorm[j]
  /\ call.items # CallNorm

\* the positions of the input that start a run of equal adjacent elements
RunStarts == {i \in DOMAIN CallNorm : i = 1 \/ CallNorm[i] # CallNorm[i - 1]}

\* C23: with presorted = true nothing is reordered: without dedup the list
\* returned is the normalized input; with dedup it is the normalized input
\* with each run of equal adjacent elements reduced to its first, which has
\* no repeats when the input is sorted.
C23_PrepareBatchPresorted ==
  (call.called /\ call.presorted) =>
    LET items == call.items
        nth(j) == CHOOSE i \in RunStarts : Cardinality({k \in RunStarts : k <= i}) = j
    IN /\ ~call.dedup => items = CallNorm
       /\ call.dedup =>
            /\ Len(items) = Cardinality(RunStarts)
            /\ \A j \in DOMAIN items : items[j] = CallNorm[nth(j)]
            /\ (\A i \in 1..(Len(CallNorm) - 1) : ~StrLess(CallNorm[i + 1], CallNorm[i]))
                 => Cardinality(Range(items)) = Len(items)

\* a call with dedup on an unsorted list a, b, a: both occurrences of a stay
C23_Witness ==
  /\ call.called /\ call.presorted /\ call.dedup
  /\ Len(call.words) = 3
  /\ CallNorm[1] = CallNorm[3] /\ CallNorm[1] # CallNorm[2]
  /\ call.words[1] # call.words[3]
  /\ Len(call.items) = 3

(***************************************************************************)
(* Properties of the compressed trie.                                      *)
(***************************************************************************)
CNodes == Reachable(ctrie)
CLabels(n) == {ctrie[n].edges.items[i][1] : i \in DOMAIN ctrie[n].edges.items}
CDelete(w) == CompressedTrie_single_delete(Mem(ctrie), w, TRUE)
CInsert(w) == CompressedTrie_single_insert(Mem(ctrie), w, TRUE)

\* C1: search(w) finds a node exactly when the normalized word is in the
\* reference set built by the same insertions and deletions.
C1_SearchIsSetMembership ==
  \A w \in Words : (CompressedTrie_search(ctrie, w, TRUE) # None) <=> (casefold(w) \in ref)

\* a full trie in which a word that is not in normal form finds its key
C1_Witness ==
  /\ Cardinality(ref) = MaxKeys
  /\ \E w \in Words : casefold(w) # w /\ CompressedTrie_search(ctrie, w, TRUE) # None
  /\ \E w \in Words : CompressedTrie_search(ctrie, w, TRUE) = None

\* C3: enumerate_prefix(p) yields exactly the stored keys that start with N(p),
\* whether p ends on a node, inside an edge label, or nowhere.
C3_EnumeratePrefixExact ==
  \A p \in Words :
    Range(CompressedTrie_enumerate_prefix(ctrie, p, <<>>, TRUE))
      = {key \in ref : startswith(key, casefold(p))}

\* a prefix that ends inside an edge label above two stored keys
C3_Witness ==
  \E p \in Words :
    /\ CompressedTrie_prefix_search(ctrie, p, TRUE)[2] # <<>>
    /\ Len(CompressedTrie_enumerate_prefix(ctrie, p, <<>>, TRUE)) >= 2

\* C5: no node other than the root is non-terminal with exactly one edge.
C5_Compression ==
  \A n \in CNodes \ {root} : ~(~ctrie[n].is_terminal /\ RadixNode_degree(Mem(ctrie), n) = 1)

\* a delete that prunes a leaf three edges down and merges its parent
C5_Witness ==
  \E w \in Words :
    /\ CDelete(w).ret
    /\ Len(delete_walk(Mem(ctrie), root, casefold(w), <<>>).frames) >= 3
    /\ CompressedTrie_count_nodes(CDelete(w).m.node) = CompressedTrie_count_nodes(ctrie) - 2

C7_LeafTerminal ==
  \A n \in CNodes \ {root} : RadixNode_degree(Mem(ctrie), n) = 0 => ctrie[n].is_terminal

\* a delete that removes a leaf and stops at a terminal parent
C7_Witness ==
  \E w \in Words :
    /\ CDelete(w).ret
    /\ CompressedTrie_count_nodes(CDelete(w).m.node) = CompressedTrie_count_nodes(ctrie) - 1
    /\ \E v \in Words : Len(casefold(v)) < Len(casefold(w)) /\ startswith(casefold(w), casefold(v))
                        /\ CompressedTrie_search(ctrie, v, TRUE) # None

\* C8: every edge label is non-empty, and no call of RadixNode._set got an
\* empty label (it would raise).
C8_NonEmptyLabels ==
  /\ \A n \in CNodes : <<>> \notin CLabels(n)
  /\ ~raised
  /\ \A w \in Words : ~CInsert(w).m.raised /\ ~CDelete(w).m.raised

\* an insert that splits an edge, leaving a shared prefix and an old tail
C8_Witness ==
  \E w \in Words :
    /\ Cardinality(ref) < MaxKeys
    /\ CInsert(w).exit = "split"
    /\ \E n \in CNodes : \E l \in CLabels(n) : Len(l) >= 2

\* C9: with T = fanout_switch, a node with T or more edges is dense (dict),
\* one with 1 to T-2 edges is sparse (list), one with none has edges = None.
C9_ContainerShape ==
  \A n \in CNodes :
    LET e == ctrie[n].edges
        d == Len(e.items)
    IN /\ d >= fanout_switch => e.form = "dict"
       /\ (d >= 1 /\ d <= fanout_switch - 2) => e.form = "list"
       /\ d = 0 => e.form = "None"

\* a dense container that a removal has left with T-1 edges
C9_Witness ==
  /\ ctrie[root].edges.form = "dict"
  /\ Len(ctrie[root].edges.items) = fanout_switch - 1

\* C10: single_delete(w) returns true exactly when N(w) was stored, and a
\* false return leaves every node, label, flag and container as it was.
C10_DeleteReturn ==
  \A w \in Words :
    /\ CDelete(w).ret <=> (casefold(w) \in ref)
    /\ ~CDelete(w).ret => CDelete(w).m.node = ctrie

\* one trie in which deletes fail for each of the three reasons
C10_Witness ==
  /\ \E w \in Words : CDelete(w).exit = "no_edge"
  /\ \E w \in Words : CDelete(w).exit = "mid_edge"
  /\ \E w \in Words : CDelete(w).exit = "not_terminal"
  /\ \E w \in Words : CDelete(w).exit = "deleted"

\* the lists of k words handed to batch_insert on an empty trie: any words,
\* repeats and any order included
RoundTripLists(k) == [1..k -> Words]

\* the trie batch_insert leaves when called on an empty trie
CBatchInsertEmpty(ws, dedup) ==
  CompressedTrie_batch_insert(Mem(CompressedTrie_init), ws, dedup, FALSE).node

\* C11: on an empty trie, batch_insert(S) with presorted = false, for either
\* value of dedup, leaves a trie whose enumerate_prefix("") yields, as a set,
\* exactly the normalized words of S.
C11_BatchInsertRoundTrip ==
  ctrie = CompressedTrie_init =>
    \A k \in 0..(MaxBatch + 1) : \A ws \in RoundTripLists(k), dedup \in BOOLEAN :
      Range(CompressedTrie_enumerate_prefix(CBatchInsertEmpty(ws, dedup), <<>>, <<>>, TRUE))
        = Normalized(ws)

\* the trie a batch of two distinct keys, given in descending order and not in
\* normal form, has built from empty
C11_Witness ==
  \E ws \in BatchLists, dedup \in BOOLEAN :
    /\ Len(ws) = 2
    /\ StrLess(casefold(ws[2]), casefold(ws[1]))
    /\ casefold(ws[1]) # ws[1]
    /\ ctrie = Compact(Collect(CBatchInsertEmpty(ws, dedup)))
    /\ ref = Normalized(ws)
    /\ Len(CompressedTrie_enumerate_prefix(ctrie, <<>>, <<>>, TRUE)) = 2

\* the keys enumerate_prefix("") yields
CEnumerateAll(node) == CompressedTrie_enumerate_prefix(node, <<>>, <<>>, TRUE)

\* C12: for a key that is not stored, single_insert(w) followed by
\* single_delete(w) returns true and leaves the set that enumerate_prefix("")
\* yields as it was before the insert.
C12_DeleteInverse ==
  \A w \in Words :
    CompressedTrie_search(ctrie, w, TRUE) = None =>
      LET back == CompressedTrie_single_delete(CInsert(w).m, w, TRUE)
      IN /\ back.ret
         /\ Range(CEnumerateAll(back.m.node)) = Range(CEnumerateAll(ctrie))

\* an absent key whose insert splits an edge of a trie holding two keys, and
\* whose delete merges the edge back
C12_Witness ==
  \E w \in Words :
    /\ CompressedTrie_search(ctrie, w, TRUE) = None
    /\ Cardinality(ref) >= 2
    /\ CInsert(w).exit = "split"
    /\ CompressedTrie_single_delete(CInsert(w).m, w, TRUE).exit = "deleted"
    /\ CompressedTrie_count_nodes(CompressedTrie_single_delete(CInsert(w).m, w, TRUE).m.node)
         = CompressedTrie_count_nodes(ctrie)

\* C13: single_insert of a stored key changes nothing: no node is allocated,
\* no label, flag or container changes, and enumerate_prefix("") yields the
\* same sequence.
C13_InsertIdempotent ==
  \A w \in Words :
    CompressedTrie_search(ctrie, w, TRUE) # None =>
      /\ CInsert(w).m.node = ctrie
      /\ ~CInsert(w).m.raised
      /\ CEnumerateAll(CInsert(w).m.node) = CEnumerateAll(ctrie)

\* a stored key two edges below the root, inserted again by a word that is
\* not in normal form
C13_Witness ==
  \E w \in Words :
    /\ CompressedTrie_search(ctrie, w, TRUE) # None
    /\ casefold(w) # w
    /\ Len(delete_walk(Mem(ctrie), root, casefold(w), <<>>).frames) >= 2
    /\ CInsert(w).exit = "mark"

ParentOf(node, n) ==
  CHOOSE q \in NodeIds : node[q].alloc /\ n \in Children(node, q)
InLabel(node, n) ==
  LET items == node[ParentOf(node, n)].edges.items
  IN items[CHOOSE i \in DOMAIN items : items[i][2] = n][1]

\* the edge labels from the root down to n, concatenated
RECURSIVE PathLabel(_, _)
PathLabel(node, n) ==
  IF n = root THEN <<>>
  ELSE PathLabel(node, ParentOf(node, n)) \o InLabel(node, n)

CPrefixSearch(p) == CompressedTrie_prefix_search(ctrie, p, TRUE)

\* C17: when prefix_search(p) returns (child, pending) with pending non-empty,
\* pending is a proper suffix of the label of the edge into child and
\* N(p) + pending spells the path from the root to child; when it returns
\* (n, "") with n a node, N(p) spells the path to n; the empty prefix returns
\* (root, "").
C17_PrefixSearchPosition ==
  \A p \in Words :
    LET r == CPrefixSearch(p)
        label == InLabel(ctrie, r[1])
    IN /\ r[2] # <<>> =>
            /\ r[1] \in CNodes \ {root}
            /\ Len(r[2]) < Len(label)
            /\ Drop(label, Len(label) - Len(r[2])) = r[2]
            /\ casefold(p) \o r[2] = PathLabel(ctrie, r[1])
       /\ (r[1] # None /\ r[2] = <<>>) =>
            /\ r[1] \in CNodes
            /\ casefold(p) = PathLabel(ctrie, r[1])
       /\ casefold(p) = <<>> => r = <<root, <<>>>>

\* a prefix that passes a node and ends inside the label of an edge below it
C17_Witness ==
  \E p \in Words :
    /\ CPrefixSearch(p)[2] # <<>>
    /\ ParentOf(ctrie, CPrefixSearch(p)[1]) # root
    /\ casefold(p) # p

\* the normalized prefixes asked for, one character longer than any key included
Prefixes == StringsUpTo(Lower, MaxLen + 1) \ {<<>>}

\* C18: for a non-empty normalized prefix p, prefix_search(p) returns
\* (None, "") exactly when no stored key starts with p.
C18_PrefixSearchNoneIffNoKey ==
  \A p \in Prefixes :
    (CompressedTrie_prefix_search(ctrie, p, TRUE) = <<None, <<>>>>)
      <=> ~(\E key \in ref : startswith(key, p))

\* a delete that prunes: a prefix found before it is gone after it, while
\* another prefix is still found inside an edge label
C18_Witness ==
  \E w \in Words :
    /\ CDelete(w).ret
    /\ \E p \in Prefixes :
         /\ CompressedTrie_prefix_search(ctrie, p, TRUE)[1] # None
         /\ CompressedTrie_prefix_search(CDelete(w).m.node, p, TRUE) = <<None, <<>>>>
    /\ \E p \in Prefixes :
         CompressedTrie_prefix_search(CDelete(w).m.node, p, TRUE)[2] # <<>>

\* the integer limits passed as k
KValues == -1 .. (MaxKeys + 1)

Min(a, b) == IF a < b THEN a ELSE b
Max(a, b) == IF a > b THEN a ELSE b

\* C19: with m stored keys under N(p), enumerate_prefix(p) yields m pairwise
\* distinct strings when k is absent, and with an integer k the first
\* min(max(k, 0), m) of them, nothing for k <= 0.
C19_EnumerateLimit ==
  \A p \in Words :
    LET m == Cardinality({key \in ref : startswith(key, casefold(p))})
        all == CompressedTrie_enumerate_prefix(ctrie, p, <<>>, TRUE)
    IN /\ Len(all) = m
       /\ Cardinality(Range(all)) = m
       /\ \A k \in KValues :
            LET out == CompressedTrie_enumerate_prefix(ctrie, p, <<k>>, TRUE)
            IN /\ Len(out) = Min(Max(k, 0), m)
               /\ out = Take(all, Len(out))

\* three keys under a prefix: k = 2 cuts the enumeration short, k = 0 and
\* k = -1 yield nothing
C19_Witness ==
  \E p \in Words :
    /\ Len(CompressedTrie_enumerate_prefix(ctrie, p, <<>>, TRUE)) = 3
    /\ Len(CompressedTrie_enumerate_prefix(ctrie, p, <<2>>, TRUE)) = 2
    /\ CompressedTrie_enumerate_prefix(ctrie, p, <<0>>, TRUE) = <<>>
    /\ CompressedTrie_enumerate_prefix(ctrie, p, <<-1>>, TRUE) = <<>>
    /\ CPrefixSearch(p)[2] # <<>>

\* C21: the empty key is stored exactly when the root is terminal;
\* single_insert("") only sets that flag, after which search("") succeeds and
\* enumerate_prefix("", k=1) yields exactly ""; single_delete("") returns the
\* flag and only clears it, the root and its edges staying as they are.
C21_EmptyKeyIsRootFlag ==
  LET ins == CInsert(<<>>).m.node
      del == CDelete(<<>>)
  IN /\ (<<>> \in ref) <=> ctrie[root].is_terminal
     /\ (CompressedTrie_search(ctrie, <<>>, TRUE) # None) <=> ctrie[root].is_terminal
     /\ ins = [ctrie EXCEPT ![root].is_terminal = TRUE]
     /\ CompressedTrie_search(ins, <<>>, TRUE) = root
     /\ CompressedTrie_enumerate_prefix(ins, <<>>, <<1>>, TRUE) = << <<>> >>
     /\ del.ret <=> ctrie[root].is_terminal
     /\ del.m.node = [ctrie EXCEPT ![root].is_terminal = FALSE]

\* a terminal root with exactly one edge: deleting the empty key leaves a
\* non-terminal root with one edge, which is not merged away
C21_Witness ==
  /\ ctrie[root].is_terminal
  /\ RadixNode_degree(Mem(ctrie), root) = 1
  /\ Cardinality(ref) >= 2
  /\ CDelete(<<>>).exit = "root_cleared"
  /\ RadixNode_degree(CDelete(<<>>).m, root) = 1

\* count_nodes() after single_delete(w) minus count_nodes() before it
CDeleteDelta(w) ==
  CompressedTrie_count_nodes(CDelete(w).m.node) - CompressedTrie_count_nodes(ctrie)

\* C24: deleting a stored non-empty key that is not a proper prefix of another
\* stored key strictly decreases count_nodes(), and every other stored key is
\* still found.
C24_DeleteLeafShrinks ==
  \A w \in Words :
    LET key == casefold(w)
    IN (key \in ref /\ key # <<>> /\ ~(\E other \in ref \ {key} : startswith(other, key))) =>
         /\ RadixNode_degree(Mem(ctrie), CompressedTrie_search(ctrie, w, TRUE)) = 0
         /\ CDeleteDelta(w) < 0
         /\ \A other \in ref \ {key} :
              CompressedTrie_search(CDelete(w).m.node, other, TRUE) # None

\* one trie with both cases: a leaf below a terminal node (one node goes) and
\* a leaf below a split midpoint that is merged away (two nodes go)
C24_Witness ==
  /\ \E w \in Words : CDelete(w).ret /\ casefold(w) # w /\ CDeleteDelta(w) = -1
  /\ \E w \in Words : CDelete(w).ret /\ CDeleteDelta(w) = -2
  /\ Cardinality(ref) = MaxKeys

\* the form of the root's edge container and the number of its edges
RootForm == ctrie[root].edges.form
RootDegree == Len(ctrie[root].edges.items)

\* C25: with T = fanout_switch, a list becomes a dict only by the _set that
\* appends the T-th edge, a dict becomes a list only by the _del that leaves
\* T-2 edges, a call that keeps the number of edges keeps the form, and a
\* dict moving between T and T-1 edges stays a dict.
C25_Hysteresis ==
  [][ /\ (RootForm = "list" /\ RootForm' = "dict") =>
           (RootDegree = fanout_switch - 1 /\ RootDegree' = fanout_switch)
      /\ (RootForm = "dict" /\ RootForm' = "list") =>
           (RootDegree = fanout_switch - 1 /\ RootDegree' = fanout_switch - 2)
      /\ RootDegree' = RootDegree => RootForm' = RootForm
      /\ (RootForm = "dict" /\ RootDegree' >= fanout_switch - 1) => RootForm' = "dict"
    ]_vars

\* a dict that a removal has left with T-1 edges and in which a replacing
\* _set has put a longer label
C25_Witness ==
  /\ RootForm = "dict"
  /\ RootDegree = fanout_switch - 1
  /\ \E i \in DOMAIN ctrie[root].edges.items : Len(ctrie[root].edges.items[i][1]) = 2

\* C26: the edge that _get(word[0]) returns always shares at least its first
\* character with the remaining word, so single_insert never takes its last
\* branch (i == 0), whatever the trie and the key.
C26_FallBackUnreachable ==
  /\ \A n \in CNodes, ch \in RawChars :
       LET hit == RadixNode_get(Mem(ctrie), n, ch)
       IN hit # <<>> => CompressedTrie_lcp(<<ch>>, hit[1]) = 1
  /\ \A w \in Words, normalize \in BOOLEAN :
       CompressedTrie_single_insert(Mem(ctrie), w, normalize).exit # "fall_back"

\* an insert whose candidate edge shares just its first character with the
\* word, the closest the loop comes to i == 0
C26_Witness ==
  \E w \in Words :
    LET hit == RadixNode_get(Mem(ctrie), root, First(casefold(w)))
    IN /\ Len(casefold(w)) >= 2
       /\ hit # <<>>
       /\ Len(hit[1]) >= 2
       /\ CompressedTrie_lcp(casefold(w), hit[1]) = 1
       /\ CInsert(w).exit = "split"
       /\ Cardinality(ref) >= 2

\* C27: enumerate_prefix yields in depth-first pre-order: a stored key comes
\* before every stored key it is a proper prefix of; when the start position
\* is a stored key, that key is the first result and the only one for k = 1.
C27_EnumeratePreorder ==
  \A p \in Words :
    LET out == CompressedTrie_enumerate_prefix(ctrie, p, <<>>, TRUE)
        found == CPrefixSearch(p)
        start == casefold(p) \o found[2]
    IN /\ \A i, j \in DOMAIN out :
            (out[i] # out[j] /\ startswith(out[j], out[i])) => i < j
       /\ (found[1] # None /\ start \in ref) =>
            /\ out[1] = start
            /\ CompressedTrie_enumerate_prefix(ctrie, p, <<1>>, TRUE) = <<start>>

\* a prefix that ends inside the label of an edge into a stored key which has
\* a longer stored key below it
C27_Witness ==
  \E p \in Words :
    /\ CPrefixSearch(p)[2] # <<>>
    /\ casefold(p) \o CPrefixSearch(p)[2] \in ref
    /\ Len(CompressedTrie_enumerate_prefix(ctrie, p, <<>>, TRUE)) >= 2
    /\ CompressedTrie_enumerate_prefix(ctrie, p, <<1>>, TRUE)
         = <<casefold(p) \o CPrefixSearch(p)[2]>>

\* the structure of a trie: for every node the labels from the root down to
\* it and its terminal flag; container form and edge order are left out
Structure(node) == {<<PathLabel(node, n), node[n].is_terminal>> : n \in Reachable(node)}

\* the node positions a key set calls for: the root, every key, and every
\* point where two keys part
CanonPaths(keys) ==
  {<<>>} \cup keys
    \cup {Take(a, CompressedTrie_lcp(a, b)) : a \in keys, b \in keys}

\* the trie built by inserting the stored keys in ascending order
CSortedRebuild == Compact(Collect(CompressedTrie_insert_each(Mem(CompressedTrie_init),
                                                             sorted_set(ref)).node))

\* C28: the structure of the trie is a function of the stored key set alone,
\* whatever sequence of inserts, deletes and batch operations led to it, and
\* so is count_nodes().
C28_CanonicalShape ==
  /\ Structure(ctrie) = {<<q, q \in ref>> : q \in CanonPaths(ref)}
  /\ CompressedTrie_count_nodes(ctrie) = Cardinality(CanonPaths(ref))
  /\ Structure(ctrie) = Structure(CSortedRebuild)

\* three keys around a split midpoint, in a trie whose edge order differs
\* from the one an ascending rebuild gives
C28_Witness ==
  /\ Cardinality(ref) = MaxKeys
  /\ \E n \in CNodes \ {root} : ~ctrie[n].is_terminal
  /\ ctrie # CSortedRebuild

\* the memory, node and remaining frames with which the upward pass of
\* single_delete enters its inner loop, <<>> when it does not get there
RECURSIVE inner_loop_entry(_, _, _)
inner_loop_entry(m, cur, frames) ==
  IF frames = <<>> THEN <<>>
  ELSE
    LET top == frames[Len(frames)]
        rest == Take(frames, Len(frames) - 1)
        only == RadixNode_only_edge(m, cur)
    IN IF m.node[cur].is_terminal THEN <<>>
       ELSE IF RadixNode_degree(m, cur) = 1
       THEN <<RadixNode_set(m, top[1], top[2] \o only[1], only[2]), top[1], rest>>
       ELSE IF RadixNode_degree(m, cur) = 0
       THEN inner_loop_entry(RadixNode_del(m, top[1], First(top[2])).m, top[1], rest)
       ELSE <<>>

CDeleteInnerLoop(w) ==
  LET walk == delete_walk(Mem(ctrie), root, casefold(w), <<>>)
  IN IF CDelete(w).exit = "deleted"
     THEN inner_loop_entry(set_terminal(Mem(ctrie), walk.node, FALSE), walk.node, walk.frames)
     ELSE <<>>

\* count_nodes() after single_insert(w) minus count_nodes() before it
CInsertDelta(w) ==
  CompressedTrie_count_nodes(CInsert(w).m.node) - CompressedTrie_count_nodes(ctrie)

\* C29: single_insert adds 0, 1 or 2 nodes, 2 only when it splits an edge
\* and hangs a new leaf, and removes none; single_delete removes 0, 1 or 2
\* nodes and adds none; the inner loop of its upward pass merges nothing.
C29_BoundedChange ==
  \A w \in Words :
    LET ins == CInsert(w)
        del == CDelete(w)
        loop == CDeleteInnerLoop(w)
        leaf == CompressedTrie_search(ins.m.node, w, TRUE)
    IN /\ CInsertDelta(w) \in {0, 1, 2}
       /\ Reachable(ctrie) \subseteq Reachable(ins.m.node)
       /\ CInsertDelta(w) = 2 =>
            /\ ins.exit = "split"
            /\ leaf \notin Reachable(ctrie)
            /\ RadixNode_degree(ins.m, leaf) = 0
       /\ CDeleteDelta(w) \in {0, -1, -2}
       /\ Reachable(del.m.node) \subseteq Reachable(ctrie)
       /\ loop # <<>> => coalesce_up(loop[1], loop[2], loop[3]) = loop[1]

\* a trie in which one insert adds two nodes and one delete removes two,
\* entering the inner loop with a grandparent still on the stack
C29_Witness ==
  /\ \E w \in Words : CInsertDelta(w) = 2
  /\ \E w \in Words :
       /\ CDeleteDelta(w) = -2
       /\ CDeleteInnerLoop(w) # <<>>
       /\ CDeleteInnerLoop(w)[3] # <<>>

(***************************************************************************)
(* The state machine of the standard trie.                                 *)
(***************************************************************************)
SSingleInsert(w) ==
  LET m == Trie_single_insert(Mem(trie), w)
  IN /\ Cardinality(ref \cup {casefold(w)}) <= MaxKeys
     /\ trie' = Compact(Collect(m.node))
     /\ ref' = ref \cup {casefold(w)}
     /\ UNCHANGED <<ctrie, raised, call>>

SSingleDelete(w) ==
  LET r == Trie_single_delete(Mem(trie), w)
  IN /\ trie' = Compact(Collect(r.m.node))
     /\ ref' = ref \ {casefold(w)}
     /\ UNCHANGED <<ctrie, raised, call>>

SBatchInsert(ws, dedup, presorted) ==
  LET m == Trie_batch_insert(Mem(trie), ws, dedup, presorted)
  IN /\ Cardinality(ref \cup Normalized(ws)) <= MaxKeys
     /\ trie' = Compact(Collect(m.node))
     /\ ref' = ref \cup Normalized(ws)
     /\ UNCHANGED <<ctrie, raised, call>>

SBatchDelete(ws, dedup, presorted) ==
  LET r == Trie_batch_delete(Mem(trie), ws, dedup, presorted)
  IN /\ trie' = Compact(Collect(r.m.node))
     /\ ref' = ref \ Normalized(ws)
     /\ UNCHANGED <<ctrie, raised, call>>

NextS ==
  \/ \E w \in Words : SSingleInsert(w)
  \/ \E w \in Words : SSingleDelete(w)
  \/ \E ws \in BatchLists, dedup \in BOOLEAN, presorted \in BOOLEAN :
       SBatchInsert(ws, dedup, presorted)
  \/ \E ws \in BatchLists, dedup \in BOOLEAN, presorted \in BOOLEAN :
       SBatchDelete(ws, dedup, presorted)

SpecS == Init /\ [][NextS]_vars

(***************************************************************************)
(* Properties of the standard trie.                                        *)
(***************************************************************************)
\* C2: Trie.search(w) finds a node exactly when the normalized word is in
\* the reference set built by the same insertions and deletions.
C2_TrieSearchIsSetMembership ==
  \A w \in Words : (Trie_search(trie, w) # None) <=> (casefold(w) \in ref)

\* C4: Trie.enumerate_prefix(p) yields exactly the stored keys that start
\* with N(p).
C4_TrieEnumeratePrefixExact ==
  \A p \in Words :
    Range(Trie_enumerate_prefix(trie, p, <<>>)) = {key \in ref : startswith(key, casefold(p))}

\* single_insert called on each word of a list, in order
RECURSIVE Trie_insert_each(_, _)
Trie_insert_each(m, words) ==
  IF words = <<>> THEN m
  ELSE Trie_insert_each(Trie_single_insert(m, Head(words)), Tail(words))

\* a trie up to the identity of its nodes
Shape(node) == Compact(Collect(node))

\* C15: Trie.batch_insert, resuming each key from the path stack of the
\* previous one, builds the same tree (nodes per path, dict order, terminal
\* flags) as single_insert called on each prepared key in order.
C15_TrieBatchInsertIsSequential ==
  \A ws \in BatchLists, dedup \in BOOLEAN, presorted \in BOOLEAN :
    Shape(Trie_batch_insert(Mem(trie), ws, dedup, presorted).node)
      = Shape(Trie_insert_each(Mem(trie), prepare_batch(ws, dedup, presorted)).node)

\* a non-empty trie and a batch of two new keys that share their first
\* character, so that the second resumes below the root
C15_Witness ==
  \E ws \in BatchLists :
    LET prepared == prepare_batch(ws, FALSE, FALSE)
    IN /\ Len(prepared) = 2
       /\ prepared[1] # prepared[2]
       /\ lcp_from(prepared[1], prepared[2], 0) >= 1
       /\ Range(prepared) \cap ref = {}
       /\ ref # {}
       /\ Trie_count_nodes(Trie_batch_insert(Mem(trie), ws, FALSE, FALSE).node)
            >= Trie_count_nodes(trie) + 2

\* single_delete called on each word of a list, each by a walk from the root
RECURSIVE Trie_delete_each(_, _, _, _)
Trie_delete_each(m, words, deleted, missing) ==
  IF words = <<>> THEN [m |-> m, ret |-> <<deleted, missing>>]
  ELSE LET r == Trie_single_delete(m, Head(words))
       IN IF r.ret
          THEN Trie_delete_each(r.m, Tail(words), deleted + 1, missing)
          ELSE Trie_delete_each(r.m, Tail(words), deleted, missing + 1)

\* C16: Trie.batch_delete, resuming each key from the path stack of the
\* previous one, leaves the same tree and returns the same (deleted, missing)
\* as deleting each prepared key by a fresh walk from the root.
C16_TrieBatchDeleteIsSequential ==
  \A ws \in BatchLists, dedup \in BOOLEAN, presorted \in BOOLEAN :
    LET batch == Trie_batch_delete(Mem(trie), ws, dedup, presorted)
        each == Trie_delete_each(Mem(trie), prepare_batch(ws, dedup, presorted), 0, 0)
    IN /\ Shape(batch.m.node) = Shape(each.m.node)
       /\ batch.ret = each.ret

\* C20: Trie.enumerate_prefix(p, k) with an integer k <= 0 yields nothing.
C20_TrieEnumerateNonPositiveK ==
  \A p \in Words, k \in KValues :
    k <= 0 => Trie_enumerate_prefix(trie, p, <<k>>) = <<>>

\* the nodes of the standard trie, and the keys it holds
TNodes == Reachable(trie)
TStored == {key \in Keys : Trie_search(trie, key) # None}

\* C30: every node of the standard trie other than the root is terminal or
\* has a child, no node has an empty children mapping, and prefix_search(p)
\* finds a node for a non-empty p only if a stored key starts with N(p).
C30_TriePruned ==
  /\ \A n \in TNodes \ {root} : trie[n].is_terminal \/ Len(trie[n].edges.items) >= 1
  /\ \A n \in TNodes : trie[n].edges.form = "dict" => trie[n].edges.items # <<>>
  /\ \A p \in Prefixes :
       Trie_prefix_search(trie, p) # None => \E key \in TStored : startswith(key, p)

\* a batch_delete that unlinks a chain of two nodes and leaves other keys
C30_Witness ==
  \E ws \in BatchLists :
    LET after == Trie_batch_delete(Mem(trie), ws, TRUE, FALSE)
    IN /\ after.ret[1] >= 1
       /\ Trie_count_nodes(after.m.node) <= Trie_count_nodes(trie) - 2
       /\ Trie_count_nodes(after.m.node) >= 2
       /\ \E p \in Prefixes :
            Trie_prefix_search(trie, p) # None /\ Trie_prefix_search(after.m.node, p) = None

====
